---- MODULE Spec2Model ----
(***************************************************************************)
(* Model of remove_backgrounds.py: the batch that reads each icon of a     *)
(* fixed list from public/, hands its bytes to rembg's remove() and writes *)
(* the result under public/transparent/.                                   *)
(*                                                                         *)
(* The filesystem is a map from paths to byte sequences.  The program is   *)
(* single threaded; pc is the line it is about to execute.  Operations     *)
(* that can raise (makedirs, open/read, remove, open/write) have one       *)
(* action for the normal return and one for the exception, which nothing   *)
(* in the script catches.  log is the console; trace, failure, fs0,        *)
(* prevOut and envFault are history variables used by the properties.      *)
(***************************************************************************)
EXTENDS Integers, Sequences, FiniteSets, TLC

\* ---- bounds ------------------------------------------------------------
NumBytes == 2      \* number of distinct input file contents
MaxRuns == 2       \* number of consecutive invocations of main()

\* ---- program constants -------------------------------------------------
input_dir == "public"
output_dir == "public/transparent"
icons == <<"set1_silent.png", "set1_listening.png", "set1_speaking.png">>

\* a file of the output directory that is not in the list
OtherLeaf == "other.png"

\* ---- byte sequences ----------------------------------------------------
Absent == <<-1>>                 \* the path does not exist
Stale == <<0, 0>>                \* content left by something before the run
NoData == <<>>                   \* an unassigned local / an empty file
InputContents == {<<k>> : k \in 1..NumBytes}

\* rembg.remove: an opaque deterministic function bytes -> bytes.  It is
\* modelled by prefixing a tag, so that it is injective, never the identity
\* and its result has a proper non-empty prefix (a partial write).
remove(data) == <<0>> \o data

Prefixes(s) == {SubSeq(s, 1, n) : n \in 0..Len(s)}
StrictPrefixes(s) == {SubSeq(s, 1, n) : n \in 0..(Len(s) - 1)}

\* os.path.join
join(dir, leaf) == <<dir, leaf>>
InputPath(k) == join(input_dir, icons[k])
OutputPath(k) == join(output_dir, icons[k])

Indices == 1..Len(icons)
InputPaths == {InputPath(k) : k \in Indices}
OutputPaths == {OutputPath(k) : k \in Indices}
OtherPath == join(output_dir, OtherLeaf)
Paths == InputPaths \cup OutputPaths \cup {OtherPath}

\* os.path.exists
exists(f, p) == f[p] # Absent

VARIABLES fs, outDir, badBytes, pc, i, input_data, output_data, log,
          trace, failure, run, fs0, prevOut, envFault

vars == <<fs, outDir, badBytes, pc, i, input_data, output_data, log,
          trace, failure, run, fs0, prevOut, envFault>>

Notice(kind, path) == [kind |-> kind, path |-> path]
Step(op, k) == [op |-> op, idx |-> k]

\* The filesystem main() may find.  The output path is absent, a directory
\* or something else; an existing output directory holds the unlisted file
\* and either all or none of the listed outputs (later invocations meet the
\* mixed cases).  badBytes are the contents remove raises
\* on; as a run ends at the first of them it meets and inputs never change,
\* one such content gives every behaviour a larger set gives.
Init ==
    /\ outDir \in {"absent", "dir", "file"}
    /\ badBytes \in {{}} \cup {{b} : b \in InputContents}
    /\ fs \in [Paths -> InputContents \cup {Absent, Stale}]
    /\ \A p \in InputPaths : fs[p] \in InputContents \cup {Absent}
    /\ \E old \in {Absent, Stale} : \A p \in OutputPaths : fs[p] = old
    /\ fs[OtherPath] = IF outDir = "dir" THEN Stale ELSE Absent
    /\ outDir # "dir" => \A p \in OutputPaths : fs[p] = Absent
    /\ pc = "makedirs"
    /\ i = 0
    /\ input_data = NoData
    /\ output_data = NoData
    /\ log = <<>>
    /\ trace = <<>>
    /\ failure = "none"
    /\ run = 1
    /\ fs0 = fs
    /\ prevOut = fs
    /\ envFault = FALSE

\* an uncaught exception: the interpreter unwinds and the process ends
Raise(kind, transient) ==
    /\ pc' = "aborted"
    /\ failure' = kind
    /\ envFault' = (envFault \/ transient)

\* variant: os.makedirs(output_dir) without exist_ok raises FileExistsError
\* on a directory that is already there
MakeDirs_noExistOk ==
    /\ pc = "makedirs"
    /\ outDir \in {"absent", "dir"}
    /\ IF outDir = "absent"
         THEN /\ outDir' = "dir"
              /\ pc' = "banner"
              /\ UNCHANGED <<failure, envFault>>
         ELSE /\ Raise("makedirs", FALSE)
              /\ UNCHANGED outDir
    /\ UNCHANGED <<fs, badBytes, i, input_data, output_data, log, trace,
                   run, fs0, prevOut>>

\* line 33: os.makedirs(output_dir, exist_ok=True)
MakeDirs ==
    /\ pc = "makedirs"
    /\ outDir \in {"absent", "dir"}
    /\ outDir' = "dir"
    /\ pc' = "banner"
    /\ UNCHANGED <<fs, badBytes, i, input_data, output_data, log, trace,
                   failure, run, fs0, prevOut, envFault>>

\* line 33 when the path is taken by something that is not a directory
MakeDirsFail ==
    /\ pc = "makedirs"
    /\ outDir = "file"
    /\ Raise("makedirs", FALSE)
    /\ UNCHANGED <<fs, outDir, badBytes, i, input_data, output_data, log,
                   trace, run, fs0, prevOut>>

\* lines 42-46: the start banner; line 49: the iterator is created
Banner ==
    /\ pc = "banner"
    /\ log' = Append(log, Notice("start", <<>>))
    /\ i' = 1
    /\ pc' = "loop"
    /\ UNCHANGED <<fs, outDir, badBytes, input_data, output_data, trace,
                   failure, run, fs0, prevOut, envFault>>

\* lines 49-53: next icon, its two paths, the existence check
CheckExists ==
    /\ pc = "loop"
    /\ i <= Len(icons)
    /\ IF exists(fs, InputPath(i))
         THEN /\ pc' = "print_processing"
              /\ trace' = Append(trace, Step("found", i))
         ELSE /\ pc' = "print_notfound"
              /\ trace' = Append(trace, Step("missing", i))
    /\ UNCHANGED <<fs, outDir, badBytes, i, input_data, output_data, log,
                   failure, run, fs0, prevOut, envFault>>

\* variant: the missing file is an error (raise FileNotFoundError)
PrintNotFound_raise ==
    /\ pc = "print_notfound"
    /\ Raise("read", FALSE)
    /\ UNCHANGED <<fs, outDir, badBytes, i, input_data, output_data, log,
                   trace, run, fs0, prevOut>>

\* line 56: the not-found notice, then back to the loop head
PrintNotFound ==
    /\ pc = "print_notfound"
    /\ log' = Append(log, Notice("notfound", InputPath(i)))
    /\ trace' = Append(trace, Step("notfound", i))
    /\ i' = i + 1
    /\ pc' = "loop"
    /\ UNCHANGED <<fs, outDir, badBytes, input_data, output_data, failure,
                   run, fs0, prevOut, envFault>>

\* variant: the output file is opened for writing on entry, before the read
\* and the call
PrintProcessing_opens ==
    /\ pc = "print_processing"
    /\ log' = Append(log, Notice("processing", InputPath(i)))
    /\ trace' = Append(trace, Step("processing", i))
    /\ fs' = [fs EXCEPT ![OutputPath(i)] = NoData]
    /\ pc' = "read"
    /\ UNCHANGED <<outDir, badBytes, i, input_data, output_data, failure,
                   run, fs0, prevOut, envFault>>

\* line 12
PrintProcessing ==
    /\ pc = "print_processing"
    /\ log' = Append(log, Notice("processing", InputPath(i)))
    /\ trace' = Append(trace, Step("processing", i))
    /\ pc' = "read"
    /\ UNCHANGED <<fs, outDir, badBytes, i, input_data, output_data,
                   failure, run, fs0, prevOut, envFault>>

\* lines 15-16: open(input_path, 'rb'), read(), close
ReadInput ==
    /\ pc = "read"
    /\ input_data' = fs[InputPath(i)]
    /\ trace' = Append(trace, Step("read", i))
    /\ pc' = "remove"
    /\ UNCHANGED <<fs, outDir, badBytes, i, output_data, log, failure, run,
                   fs0, prevOut, envFault>>

\* lines 15-16 raising OSError (permissions, I/O error)
ReadFail ==
    /\ pc = "read"
    /\ trace' = Append(trace, Step("read", i))
    /\ Raise("read", TRUE)
    /\ UNCHANGED <<fs, outDir, badBytes, i, input_data, output_data, log,
                   run, fs0, prevOut>>

\* variant: the call is handed to a worker and not waited for; the loop
\* moves on to the next name
ExternalReturn_async ==
    /\ pc = "remove"
    /\ input_data \notin badBytes
    /\ output_data' = remove(input_data)
    /\ trace' = Append(trace, Step("remove", i))
    /\ i' = i + 1
    /\ pc' = "loop"
    /\ UNCHANGED <<fs, outDir, badBytes, input_data, log, failure, run,
                   fs0, prevOut, envFault>>

\* line 19: remove(input_data) returns
ExternalReturn ==
    /\ pc = "remove"
    /\ input_data \notin badBytes
    /\ output_data' = remove(input_data)
    /\ trace' = Append(trace, Step("remove", i))
    /\ pc' = "open"
    /\ UNCHANGED <<fs, outDir, badBytes, i, input_data, log, failure, run,
                   fs0, prevOut, envFault>>

\* variant: the exception of remove is caught per file and the loop goes on
ExternalFail_isolated ==
    /\ pc = "remove"
    /\ \E transient \in BOOLEAN :
         /\ transient \/ input_data \in badBytes
         /\ envFault' = (envFault \/ (transient /\ input_data \notin badBytes))
    /\ failure' = "remove"
    /\ trace' = Append(trace, Step("remove", i))
    /\ i' = i + 1
    /\ pc' = "loop"
    /\ UNCHANGED <<fs, outDir, badBytes, input_data, output_data, log, run,
                   fs0, prevOut>>

\* variant: the call is tried again when it raises
ExternalFail_retry ==
    /\ pc = "remove"
    /\ \E transient \in BOOLEAN :
         /\ transient \/ input_data \in badBytes
         /\ envFault' = (envFault \/ (transient /\ input_data \notin badBytes))
    /\ trace' = Append(trace, Step("remove", i))
    /\ UNCHANGED <<fs, outDir, badBytes, pc, i, input_data, output_data,
                   log, failure, run, fs0, prevOut>>

\* line 19: remove(input_data) raises, either because of the bytes it was
\* given (every time) or for a reason of its own (transient)
ExternalFail ==
    /\ pc = "remove"
    /\ \E transient \in BOOLEAN :
         /\ transient \/ input_data \in badBytes
         /\ Raise("remove", transient /\ input_data \notin badBytes)
    /\ trace' = Append(trace, Step("remove", i))
    /\ UNCHANGED <<fs, outDir, badBytes, i, input_data, output_data, log,
                   run, fs0, prevOut>>

\* variant: open(output_path, 'ab') creates the file but keeps what is in it
OpenOutput_append ==
    /\ pc = "open"
    /\ fs' = [fs EXCEPT ![OutputPath(i)] = IF @ = Absent THEN NoData ELSE @]
    /\ trace' = Append(trace, Step("open", i))
    /\ pc' = "write"
    /\ UNCHANGED <<outDir, badBytes, i, input_data, output_data, log,
                   failure, run, fs0, prevOut, envFault>>

\* line 22: open(output_path, 'wb') creates or truncates the file
OpenOutput ==
    /\ pc = "open"
    /\ fs' = [fs EXCEPT ![OutputPath(i)] = NoData]
    /\ trace' = Append(trace, Step("open", i))
    /\ pc' = "write"
    /\ UNCHANGED <<outDir, badBytes, i, input_data, output_data, log,
                   failure, run, fs0, prevOut, envFault>>

\* line 22 raising OSError: nothing is created or truncated
OpenFail ==
    /\ pc = "open"
    /\ trace' = Append(trace, Step("open", i))
    /\ Raise("open", TRUE)
    /\ UNCHANGED <<fs, outDir, badBytes, i, input_data, output_data, log,
                   run, fs0, prevOut>>

\* variant: output_file.write(input_data)
WriteOutput_inputData ==
    /\ pc = "write"
    /\ fs' = [fs EXCEPT ![OutputPath(i)] = @ \o input_data]
    /\ trace' = Append(trace, Step("write", i))
    /\ pc' = "print_saved"
    /\ UNCHANGED <<outDir, badBytes, i, input_data, output_data, log,
                   failure, run, fs0, prevOut, envFault>>

\* line 23 and the close at the end of the with block
WriteOutput ==
    /\ pc = "write"
    /\ fs' = [fs EXCEPT ![OutputPath(i)] = @ \o output_data]
    /\ trace' = Append(trace, Step("write", i))
    /\ pc' = "print_saved"
    /\ UNCHANGED <<outDir, badBytes, i, input_data, output_data, log,
                   failure, run, fs0, prevOut, envFault>>

\* variant: the partial output is deleted before the exception leaves
WriteFail_cleanup ==
    /\ pc = "write"
    /\ fs' = [fs EXCEPT ![OutputPath(i)] = Absent]
    /\ trace' = Append(trace, Step("write", i))
    /\ Raise("write", TRUE)
    /\ UNCHANGED <<outDir, badBytes, i, input_data, output_data, log, run,
                   fs0, prevOut>>

\* line 23 (or the flush on close) raising OSError after part of the data,
\* possibly none, reached the file
WriteFail ==
    /\ pc = "write"
    /\ \E part \in StrictPrefixes(output_data) :
         fs' = [fs EXCEPT ![OutputPath(i)] = @ \o part]
    /\ trace' = Append(trace, Step("write", i))
    /\ Raise("write", TRUE)
    /\ UNCHANGED <<outDir, badBytes, i, input_data, output_data, log, run,
                   fs0, prevOut>>

\* variant: print(f"Saved: {input_path}")
PrintSaved_inputPath ==
    /\ pc = "print_saved"
    /\ log' = Append(log, Notice("saved", InputPath(i)))
    /\ trace' = Append(trace, Step("saved", i))
    /\ i' = i + 1
    /\ pc' = "loop"
    /\ UNCHANGED <<fs, outDir, badBytes, input_data, output_data, failure,
                   run, fs0, prevOut, envFault>>

\* line 25, return to main, back to the loop head
PrintSaved ==
    /\ pc = "print_saved"
    /\ log' = Append(log, Notice("saved", OutputPath(i)))
    /\ trace' = Append(trace, Step("saved", i))
    /\ i' = i + 1
    /\ pc' = "loop"
    /\ UNCHANGED <<fs, outDir, badBytes, input_data, output_data, failure,
                   run, fs0, prevOut, envFault>>

\* lines 58-60: the list is exhausted, the completion banner
PrintComplete ==
    /\ pc = "loop"
    /\ i > Len(icons)
    /\ log' = Append(log, Notice("complete", <<>>))
    /\ pc' = "done"
    /\ UNCHANGED <<fs, outDir, badBytes, i, input_data, output_data, trace,
                   failure, run, fs0, prevOut, envFault>>

\* lines 10-25
remove_background ==
    \/ PrintProcessing
    \/ ReadInput
    \/ ReadFail
    \/ ExternalReturn
    \/ ExternalFail
    \/ OpenOutput
    \/ OpenFail
    \/ WriteOutput
    \/ WriteFail
    \/ PrintSaved

\* lines 27-60
main ==
    \/ MakeDirs
    \/ MakeDirsFail
    \/ Banner
    \/ CheckExists
    \/ PrintNotFound
    \/ remove_background
    \/ PrintComplete

\* lines 62-63: the script is started again on the filesystem the previous
\* process left; a new process has a fresh console and fresh locals
Rerun ==
    /\ pc \in {"done", "aborted"}
    /\ run < MaxRuns
    /\ run' = run + 1
    /\ pc' = "makedirs"
    /\ i' = 0
    /\ input_data' = NoData
    /\ output_data' = NoData
    /\ log' = <<>>
    /\ trace' = <<>>
    /\ failure' = "none"
    /\ fs0' = fs
    /\ prevOut' = fs
    /\ UNCHANGED <<fs, outDir, badBytes, envFault>>

Next == main \/ Rerun

Spec == Init /\ [][Next]_vars

\* every statement of the script returns or raises
LiveSpec == Spec /\ WF_vars(main)

\* ---- vocabulary of the properties --------------------------------------
Has(op, k) == \E n \in 1..Len(trace) : trace[n] = Step(op, k)
Times(op, k) == Cardinality({n \in 1..Len(trace) : trace[n] = Step(op, k)})
Logged(kind, path) == \E n \in 1..Len(log) : log[n] = Notice(kind, path)
LoggedTimes(kind, path) ==
    Cardinality({n \in 1..Len(log) : log[n] = Notice(kind, path)})
Examined(k) == Has("found", k) \/ Has("missing", k)
Ended == pc \in {"done", "aborted"}
\* the output of k holds what remove returned for the input of k
Written(k) == fs[OutputPath(k)] = remove(fs0[InputPath(k)])
\* the output of k is what it was when the run started
Untouched(k) == fs[OutputPath(k)] = fs0[OutputPath(k)]
EarlierDone(k) ==
    \A j \in Indices : j < k =>
        /\ Has("found", j) => Written(j)
        /\ Has("missing", j) => Untouched(j)
LaterUnexamined(k) ==
    \A j \in Indices : j > k =>
        /\ Untouched(j)
        /\ \A n \in 1..Len(trace) : trace[n].idx # j
\* an aborted process does nothing more; only a new invocation follows
AbortIsFinal ==
    [][pc = "aborted" => (pc' = "makedirs" /\ run' = run + 1 /\ fs' = fs)]_vars

\* ---- C1 ----------------------------------------------------------------
\* C1: when main() has completed, every listed file whose input existed at
\* its existence check has an output of the same leaf name whose content is
\* exactly what remove returned for the input's bytes, whatever the output
\* path held before the run.
C1_OutputsWritten ==
    pc = "done" => \A k \in Indices : Has("found", k) => Written(k)

\* a completed run that replaced a stale output
C1_Witness ==
    /\ pc = "done"
    /\ \E k \in Indices :
         /\ Has("found", k)
         /\ fs0[OutputPath(k)] = Stale
         /\ fs[OutputPath(k)] = <<0>> \o fs[InputPath(k)]

\* ---- C2 ----------------------------------------------------------------
\* C2: a missing input creates no output, is reported by one not-found
\* notice naming its input path, and the loop goes on with the next name; a
\* run with no failure other than missing inputs reaches the completion
\* banner.
C2_MissingState ==
    \A k \in Indices : Has("missing", k) =>
        /\ Untouched(k)
        /\ ~Has("open", k)
        /\ (pc = "print_notfound" /\ i = k)
              \/ LoggedTimes("notfound", InputPath(k)) = 1
C2_Continues ==
    [][pc = "print_notfound" =>
          (pc' = "loop" /\ i' = i + 1 /\ failure' = "none")]_vars
C2_Completes ==
    (pc = "makedirs") ~>
        ((pc = "done" /\ Logged("complete", <<>>)) \/ failure # "none")
C2_MissingSkipped == [](C2_MissingState) /\ C2_Continues /\ C2_Completes

\* the scenario of the specification: the second of three inputs is missing
C2_Witness ==
    /\ pc = "done"
    /\ Has("found", 1) /\ Has("missing", 2) /\ Has("found", 3)
    /\ Written(1) /\ Written(3)
    /\ fs[OutputPath(2)] = Absent
    /\ LoggedTimes("notfound", InputPath(2)) = 1

\* ---- C3 ----------------------------------------------------------------
\* C3: when remove raises on the k-th name the run is aborted there: the
\* outputs of the earlier existing inputs are written, the k-th and later
\* outputs are as before the run, no later name is examined, and the
\* completion banner is not printed, then or later.
C3_AbortState ==
    failure = "remove" =>
        /\ pc = "aborted"
        /\ i \in Indices
        /\ EarlierDone(i)
        /\ Untouched(i)
        /\ LaterUnexamined(i)
        /\ ~Logged("complete", <<>>)
        /\ ~Logged("saved", OutputPath(i))
C3_ExternalFailureAborts == [](C3_AbortState) /\ AbortIsFinal

\* remove raised on the third name after the first was processed
C3_Witness ==
    /\ failure = "remove"
    /\ pc = "aborted"
    /\ i = 3
    /\ Has("found", 1)
    /\ Written(1)
    /\ fs0[OutputPath(1)] # fs[OutputPath(1)]

\* ---- C4 ----------------------------------------------------------------
\* C4: the steps of the run are grouped by file, in list order: the
\* existence check of a name directly follows the last step (saved or
\* not-found notice) of the name before it, every other step belongs to the
\* name whose check came last, and the output of a name is complete when
\* the next name is examined.
C4_Sequential ==
    /\ \A q \in 1..Len(trace) :
         IF trace[q].op \in {"found", "missing"}
           THEN IF q = 1
                  THEN trace[q].idx = 1
                  ELSE /\ trace[q - 1].idx = trace[q].idx - 1
                       /\ trace[q - 1].op \in {"saved", "notfound"}
           ELSE /\ q > 1
                /\ trace[q - 1].idx = trace[q].idx
                /\ trace[q - 1].op \notin {"saved", "notfound"}
    /\ \A k \in Indices :
         (Examined(k) /\ k > 1 /\ Has("found", k - 1)) => Written(k - 1)
    /\ \A n \in 1..Len(trace) : trace[n].idx <= i

\* the second name is being examined after the first was saved
C4_Witness ==
    /\ pc = "print_processing"
    /\ i = 2
    /\ Has("saved", 1)
    /\ Written(1)

\* ---- C5 ----------------------------------------------------------------
\* C5: with remove deterministic and no transient I/O fault, the filesystem
\* at the end of a second (or later) invocation equals the filesystem at
\* the end of the invocation before it.
C5_Idempotent ==
    (run > 1 /\ Ended /\ ~envFault) => fs = prevOut

\* a second completed run that rewrote an output of the first
C5_Witness ==
    /\ run = 2
    /\ pc = "done"
    /\ ~envFault
    /\ \E k \in Indices : Has("write", k) /\ prevOut[OutputPath(k)] # Absent
    /\ fs = prevOut

\* ---- C6 ----------------------------------------------------------------
\* C6: the makedirs step comes before any name is examined and any notice
\* is printed; taken with the output directory absent or present it does
\* not raise, leaves the directory present and changes no file.
C6_MakeDirsStep ==
    [][(pc = "makedirs" /\ outDir \in {"absent", "dir"}) =>
          /\ pc' = "banner"
          /\ failure' = "none"
          /\ outDir' = "dir"
          /\ fs' = fs]_vars
C6_MakeDirsIdempotent ==
    /\ [](pc = "makedirs" => (trace = <<>> /\ log = <<>>))
    /\ [](trace # <<>> => outDir = "dir")
    /\ C6_MakeDirsStep

\* makedirs has returned on a directory that already held files
C6_Witness ==
    /\ pc = "banner"
    /\ outDir = "dir"
    /\ fs[OtherPath] = Stale
    /\ \E k \in Indices : fs[OutputPath(k)] = Stale
    /\ fs = fs0

\* ---- C7 ----------------------------------------------------------------
\* C7: a failure of the read, of the open for writing or of the write
\* aborts the run at that name: earlier outputs stay written, later names
\* are not examined, the failing name gets no not-found notice, and what
\* the failed step left of the output (nothing changed for read and open,
\* a truncated or partial file for write) is left as it is.
C7_AbortState ==
    failure \in {"read", "open", "write"} =>
        /\ pc = "aborted"
        /\ i \in Indices
        /\ Has("found", i)
        /\ EarlierDone(i)
        /\ LaterUnexamined(i)
        /\ ~Has("missing", i)
        /\ ~Logged("notfound", InputPath(i))
        /\ ~Logged("saved", OutputPath(i))
        /\ ~Logged("complete", <<>>)
        /\ failure \in {"read", "open"} => Untouched(i)
        /\ failure = "write" =>
              fs[OutputPath(i)] \in StrictPrefixes(remove(fs0[InputPath(i)]))
C7_OnlyMissingRecovered == [](C7_AbortState) /\ AbortIsFinal

\* the write of the second name failed half way over a stale output
C7_Witness ==
    /\ failure = "write"
    /\ pc = "aborted"
    /\ i = 2
    /\ fs0[OutputPath(2)] = Stale
    /\ fs[OutputPath(2)] = <<0>>
    /\ Has("found", 1)
    /\ Written(1)

\* ---- C8 ----------------------------------------------------------------
\* C8: the console follows the steps: the start banner is the first line
\* and printed once; a missing name has its one not-found notice and no
\* other; a name that was read has one processing notice; a saved notice
\* follows the processing notice of a name whose read, remove and write all
\* returned, names the output path and is printed only when the output is
\* complete; the completion banner is there exactly when the run is done
\* and every name has its saved or not-found notice, and it is printed once
\* they all have.
NoticedAll ==
    \A k \in Indices :
        Logged("saved", OutputPath(k)) \/ Logged("notfound", InputPath(k))
C8_LogState ==
    /\ \A n \in 1..Len(log) : (log[n].kind = "start") <=> (n = 1)
    /\ \A n \in 1..Len(log) : (log[n].kind = "complete") => (n = Len(log))
    /\ \A n \in 1..Len(log) :
         /\ log[n].kind \in {"start", "complete"} => log[n].path = <<>>
         /\ log[n].kind \in {"processing", "notfound"} =>
                log[n].path \in InputPaths
         /\ log[n].kind = "saved" => log[n].path \in OutputPaths
    /\ \A k \in Indices :
         /\ LoggedTimes("notfound", InputPath(k))
              + LoggedTimes("processing", InputPath(k)) <= 1
         /\ Logged("notfound", InputPath(k)) =>
              (Has("missing", k) /\ ~Logged("saved", OutputPath(k)))
         /\ Has("read", k) => Logged("processing", InputPath(k))
         /\ LoggedTimes("saved", OutputPath(k)) <= 1
         /\ Logged("saved", OutputPath(k)) =>
              /\ Has("read", k) /\ Has("remove", k) /\ Has("write", k)
              /\ Written(k)
              /\ \E m, n \in 1..Len(log) :
                   /\ m < n
                   /\ log[m] = Notice("processing", InputPath(k))
                   /\ log[n] = Notice("saved", OutputPath(k))
         /\ (Has("write", k) /\ failure = "none"
               /\ ~(pc = "print_saved" /\ i = k)) =>
              Logged("saved", OutputPath(k))
    /\ Logged("complete", <<>>) <=> (NoticedAll /\ pc = "done")
    /\ NoticedAll => (pc = "done" \/ (pc = "loop" /\ i = Len(icons) + 1))
C8_NoticesFollowSteps ==
    /\ [](C8_LogState)
    /\ NoticedAll ~> Logged("complete", <<>>)

\* a complete console: banner, a saved pair, a not-found, the completion
C8_Witness ==
    /\ Logged("complete", <<>>)
    /\ log[1] = Notice("start", <<>>)
    /\ \E k \in Indices : Logged("saved", OutputPath(k))
    /\ \E k \in Indices : Logged("notfound", InputPath(k))
    /\ Len(log) = Len(icons) + 3

\* ---- C9 ----------------------------------------------------------------
\* C9: one pass, no retry: within a run each name is examined at most once
\* and remove is called at most once per name, for examined names only; a
\* run that is done has examined every name without failure, a run that is
\* aborted stopped at its first failure; and every run ends.
C9_PassState ==
    /\ \A k \in Indices :
         /\ Times("found", k) + Times("missing", k) <= 1
         /\ Times("remove", k) <= 1
         /\ Times("read", k) <= 1
         /\ Times("write", k) <= 1
         /\ Has("remove", k) => Has("found", k)
    /\ pc = "done" => (failure = "none" /\ \A k \in Indices : Examined(k))
    /\ pc = "aborted" =>
         /\ failure # "none"
         /\ failure # "makedirs" =>
               /\ trace # <<>>
               /\ trace[Len(trace)].idx = i
               /\ trace[Len(trace)].op = failure
    /\ failure # "none" => pc = "aborted"
C9_SinglePass ==
    /\ [](C9_PassState)
    /\ (pc = "makedirs") ~> Ended
    /\ AbortIsFinal

\* an aborted first run: remove was called once on the failing name
C9_Witness ==
    /\ pc = "aborted"
    /\ run = 1
    /\ failure = "remove"
    /\ Times("remove", i) = 1
    /\ i > 1

\* ---- C10 ---------------------------------------------------------------
\* C10: a step changes no file but the output of the name in progress, and
\* only once remove has returned for it; inputs and unlisted files stay as
\* they were; the output of a name that was missing or on which remove
\* raised is what it was before the run.
C10_WriteStep ==
    [][\A p \in Paths : fs'[p] # fs[p] =>
          /\ i \in Indices
          /\ p = OutputPath(i)
          /\ Has("found", i)
          /\ Has("remove", i)
          /\ failure = "none"
          /\ output_data = remove(fs[InputPath(i)])]_vars
C10_FrameState ==
    /\ \A p \in InputPaths \cup {OtherPath} : fs[p] = fs0[p]
    /\ \A k \in Indices :
         (Has("missing", k) \/ (failure = "remove" /\ i = k)) => Untouched(k)
    /\ \A k \in Indices : ~Has("remove", k) => Untouched(k)
C10_Frame == [](C10_FrameState) /\ C10_WriteStep

\* remove raised on a name whose stale output is still there, after another
\* output was written
C10_Witness ==
    /\ failure = "remove"
    /\ fs[OutputPath(i)] = Stale
    /\ \E k \in Indices : fs[OutputPath(k)] \notin {Absent, Stale, NoData}
    /\ fs[OtherPath] = Stale

====
